---- MODULE Spec2Model ----
(***************************************************************************)
(* Study Guide Generator front end (src/static/app.js).                    *)
(*                                                                         *)
(* The page is a single-threaded event loop.  Every action below is one    *)
(* task of that loop: a DOM event handler run to completion, or the        *)
(* continuation of an async function from the await it was suspended at    *)
(* up to its next await (or its end).                                      *)
(*                                                                         *)
(* The server is an opaque collaborator.  The text it returns for the      *)
(* /generate request of submission s, step k is the symbolic value         *)
(* [s |-> s, k |-> k]; distinct requests get distinct texts, so a          *)
(* misplaced or foreign response is visible.                               *)
(***************************************************************************)
EXTENDS Integers, Sequences, FiniteSets, TLC

(* ---------------------------- bounds ----------------------------------- *)

\* number of submit events of the form in one behaviour
MaxSubmits == 2
\* largest value the page's #maxSteps field may carry
MaxStepsValue == 2
\* click listeners a single floating button accumulates
MaxHandlers == 2

(* ---------------------------- values ----------------------------------- *)

\* The #subject field is `required`, so a submit event carries a non-empty
\* subject.  The subject typed for submission s is the symbolic value s;
\* NoSubject is the empty string SelectionHandler starts with.
NoSubject == 0
SubjectOf(s) == s

\* What window.getSelection().toString() returns, as a sequence of
\* characters: nothing, a blank, a word, and another word between blanks.
RawTexts == {<<>>, <<" ">>, <<"x">>, <<" ", "y", " ">>}

\* String.prototype.trim
RECURSIVE TrimLeft(_)
TrimLeft(t) == IF t # <<>> /\ Head(t) = " " THEN TrimLeft(Tail(t)) ELSE t

RECURSIVE TrimRight(_)
TrimRight(t) ==
    IF t # <<>> /\ t[Len(t)] = " " THEN TrimRight(SubSeq(t, 1, Len(t) - 1)) ELSE t

Trim(t) == TrimRight(TrimLeft(t))

\* the #maxSteps element of the page: <<>> when the page has none (as the
\* shipped template), <<v>> when it is present with value v
MaxStepsFields == {<<>>} \cup {<<v>> : v \in 0..MaxStepsValue}

NoResponse == [s |-> 0, k |-> 0]
\* the text the server returns for request (s, k)
ResponseText(s, k) == [s |-> s, k |-> k]

NoRequest == [component |-> <<>>, subject |-> NoSubject]

\* The two places a call of a JSON endpoint throws: the awaited promise
\* rejects (fetch fails, or response.json() cannot parse the body), or the
\* code throws on a status that is not OK.
FailureKinds == {"rejected", "notOk"}

\* error.message of each failure of APIService.generateStep
GenerateErrorMessage(kind) ==
    CASE kind = "rejected" -> "Failed to fetch"
      [] kind = "notOk"    -> "Network response was not ok"

\* error.message of each failure inside handleExplanationRequest
DetailsErrorMessage(kind) ==
    CASE kind = "rejected" -> "Failed to fetch"
      [] kind = "notOk"    -> "HTTP error! status"

MarkedMissingMessage == "marked is not defined"

(* ---------------------------- state ------------------------------------ *)

VARIABLES
    maxSteps,           \* UIComponents.maxSteps
    markedLoaded,       \* the injected marked.js script has run
    subs,               \* the handleFormSubmit invocations, in start order
    cards,              \* every step card element created, by <<s, stepNumber>>
    resultsDiv,         \* children of #results, in document order
    previousResponses,  \* UIState.previousResponses
    currentSubject,     \* SelectionHandler.currentSubject
    selRaw,             \* window.getSelection().toString()
    selNode,            \* commonAncestorContainer of the selection's range
    currentSelection,   \* UIState.currentSelection
    floatingButton,     \* UIState.floatingButton and the element it refers to
    clones,             \* document.body holds clones of the button nothing refers to
    modal,              \* isModalLoading, #modalTitle, #modalContent, #modal
    detailsInFlight     \* /get_component_details requests awaiting a response

genVars == <<maxSteps, markedLoaded, subs, cards, resultsDiv, previousResponses,
             currentSubject>>
selVars == <<selRaw, selNode, currentSelection, floatingButton, clones>>
modalVars == <<modal, detailsInFlight>>
vars == <<maxSteps, markedLoaded, subs, cards, resultsDiv, previousResponses,
          currentSubject, selRaw, selNode, currentSelection, floatingButton,
          clones, modal, detailsInFlight>>

(* ---------------------------- DOM values ------------------------------- *)

\* UIComponents.constructor: document.getElementById('maxSteps')?.value || 1
\* (the value of a present field is a non-empty string, which is truthy
\* even when it reads "0"; the loop test coerces it to a number)
MaxStepsOf(field) == IF field = <<>> THEN 1 ELSE field[1]

EmptyContent == [kind |-> "empty", src |-> NoResponse, msg |-> ""]

\* marked.parse(text): the HTML rendering of a Markdown text
MarkedParse(text) == [kind |-> "html", src |-> text, msg |-> ""]

\* UIComponents.createStepCard: a card with its number, the loading bar and
\* the "Processing..." text, and an empty .step-content
CreateStepCard(stepNumber) ==
    [step |-> stepNumber, bar |-> TRUE, content |-> EmptyContent]

\* the first two statements of updateStepCard
RemoveLoading(card) == [card EXCEPT !.bar = FALSE]

\* updateStepCard that drops the loading bar and renders nothing
UpdateStepCardBlank(card, text) == RemoveLoading(card)

\* UIComponents.updateStepCard, when marked is available
UpdateStepCard(card, text) ==
    [RemoveLoading(card) EXCEPT !.content = MarkedParse(text)]

\* showError that leaves the card as it is
ShowErrorNowhere(card, message) == card

\* UIComponents.showError
ShowError(card, message) ==
    [card EXCEPT !.content = [kind |-> "error", src |-> NoResponse, msg |-> message]]

\* the array is kept across submissions
StaleResponses == previousResponses

\* this.state.previousResponses = []
FreshResponses == <<>>

\* this.state.previousResponses.push(text)
PushResponse(responses, text) == Append(responses, text)

\* a for loop without its step++
StayOnStep(step) == step

\* step++ of the for loop
NextStepIndex(step) == step + 1

\* the test of the for loop
LoopContinues(step, limit) == step < limit

(* ---------------------------- selection -------------------------------- *)

NoNode == [kind |-> "none", s |-> 0, k |-> 0, part |-> "none"]
OutsideNode == [kind |-> "outside", s |-> 0, k |-> 0, part |-> "none"]
\* #results itself: the common ancestor of a range spanning several cards
ResultsNode == [kind |-> "results", s |-> 0, k |-> 0, part |-> "none"]
CardNode(id, part) == [kind |-> "card", s |-> id[1], k |-> id[2], part |-> part]

NoCard == <<0, 0>>

\* SelectionHandler.findStepCard: the closest ancestor with class step-card
FindStepCard(node) == IF node.kind = "card" THEN <<node.s, node.k>> ELSE NoCard

InResults(id, results) == \E i \in 1..Len(results) : results[i] = id

\* the text parts of an attached card a range can lie in
CardParts(card) ==
    {"header"} \cup (IF card.bar THEN {"loading"} ELSE {})
               \cup (IF card.content.kind # "empty" THEN {"content"} ELSE {})

\* the nodes a non-empty selection can have as common ancestor
SelectableNodes(results, cs) ==
    {OutsideNode}
    \cup (IF Len(results) >= 2 THEN {ResultsNode} ELSE {})
    \cup UNION {{CardNode(results[i], p) : p \in CardParts(cs[results[i]])} :
                i \in 1..Len(results)}

NullButton == [exists |-> FALSE, display |-> FALSE, handlers |-> 0]

\* UIState.createFloatingButton
CreateFloatingButton(button) ==
    IF button.exists THEN button
    ELSE [exists |-> TRUE, display |-> FALSE, handlers |-> 0]

\* UIState.removeFloatingButton
RemoveFloatingButton(button) == NullButton

\* handleSelectionChange that never removes the button
HandleSelectionChangeKeep(raw, node, button, current) ==
    IF Trim(raw) # <<>> /\ FindStepCard(node) # NoCard
    THEN [button |-> button, current |-> Trim(raw)]
    ELSE [button |-> button, current |-> current]

\* SelectionHandler.handleSelectionChange, on the selection (raw, node):
\* the new floatingButton and currentSelection
HandleSelectionChange(raw, node, button, current) ==
    LET selectedText == Trim(raw) IN
    IF selectedText = <<>>
    THEN [button |-> RemoveFloatingButton(button), current |-> current]
    ELSE IF node.kind = "none"
    THEN [button |-> button, current |-> current]
    ELSE IF FindStepCard(node) = NoCard
    THEN [button |-> RemoveFloatingButton(button), current |-> current]
    ELSE [button |-> button, current |-> selectedText]

(* ---------------------------- initial state ---------------------------- *)

NoModal == [loading |-> FALSE, title |-> <<>>, hidden |-> TRUE,
            content |-> [kind |-> "empty", src |-> NoRequest, msg |-> ""]]

\* the state when the StudyGuideGenerator constructor returns
Init ==
    /\ maxSteps \in {MaxStepsOf(f) : f \in MaxStepsFields}
    /\ markedLoaded = FALSE
    /\ subs = <<>>
    /\ cards = <<>>
    /\ resultsDiv = <<>>
    /\ previousResponses = <<>>
    /\ currentSubject = NoSubject
    /\ selRaw = <<>>
    /\ selNode = NoNode
    /\ currentSelection = <<>>
    /\ floatingButton = NullButton
    /\ clones = FALSE
    /\ modal = NoModal
    /\ detailsInFlight = <<>>

(* ---------------------------- study guide ------------------------------ *)

\* the subject of the first submission is kept
KeepCurrentSubject(subject) == currentSubject

\* SelectionHandler.setCurrentSubject
SetCurrentSubject(subject) == subject

\* One pass of the loop head and body of handleFormSubmit up to the await
\* of generateStep: test, createStepCard, appendChild, and the request,
\* whose body is serialised (JSON.stringify) before the await.
Iterate(s, step, sub, cs, results, responses) ==
    IF LoopContinues(step, maxSteps)
    THEN [sub     |-> [sub EXCEPT !.pc = "await", !.step = step,
                                  !.sent = responses, !.issued = @ + 1],
          cards   |-> cs @@ (<<s, step + 1>> :> CreateStepCard(step + 1)),
          results |-> Append(results, <<s, step + 1>>)]
    ELSE [sub     |-> [sub EXCEPT !.pc = "done"],
          cards   |-> cs,
          results |-> results]

\* The selection when the nodes it lies in leave the document: the range
\* collapses, and the selectionchange this raises runs handleSelectionChange
\* on an empty selection.
CollapseSelection ==
    LET h == HandleSelectionChange(<<>>, NoNode, floatingButton, currentSelection) IN
    /\ selRaw' = <<>>
    /\ selNode' = NoNode
    /\ floatingButton' = h.button
    /\ currentSelection' = h.current

\* this.ui.resultsDiv.innerHTML = ''
EmptyResults == <<>>

\* submit event of #studyForm: handleFormSubmit up to its first await
FormSubmit ==
    /\ Len(subs) < MaxSubmits
    /\ LET s       == Len(subs) + 1
           subject == SubjectOf(s)
           new     == [pc |-> "start", step |-> 0, subject |-> subject,
                   sent |-> <<>>, got |-> <<>>, issued |-> 0, error |-> ""]
           it      == Iterate(s, 0, new, cards, EmptyResults, FreshResponses)
       IN  /\ currentSubject' = SetCurrentSubject(subject)
           /\ previousResponses' = FreshResponses
           /\ subs' = Append(subs, it.sub)
           /\ cards' = it.cards
           /\ resultsDiv' = it.results
    /\ IF selNode.kind \in {"card", "results"}
       THEN CollapseSelection
       ELSE UNCHANGED <<selRaw, selNode, floatingButton, currentSelection>>
    /\ UNCHANGED <<maxSteps, markedLoaded, clones, modal, detailsInFlight>>

\* generateStep of submission s resolves: the rest of the loop body, and
\* the next pass up to the next await
GenerateResolves(s) ==
    /\ s \in 1..Len(subs)
    /\ subs[s].pc = "await"
    /\ LET sub  == subs[s]
           id   == <<s, sub.step + 1>>
           text == ResponseText(s, sub.step)
       IN  /\ IF markedLoaded
              THEN LET it == Iterate(s, NextStepIndex(sub.step),
                                     [sub EXCEPT !.got = Append(@, text)],
                                     [cards EXCEPT ![id] = UpdateStepCard(@, text)],
                                     resultsDiv,
                                     PushResponse(previousResponses, text))
                   IN  /\ subs' = [subs EXCEPT ![s] = it.sub]
                       /\ cards' = it.cards
                       /\ resultsDiv' = it.results
                       /\ previousResponses' = PushResponse(previousResponses, text)
              ELSE \* marked.parse throws a ReferenceError after the loading
                   \* bar is gone; the inner catch shows it and breaks
                   /\ subs' = [subs EXCEPT ![s].pc = "failed",
                                            ![s].error = MarkedMissingMessage]
                   /\ cards' = [cards EXCEPT
                                  ![id] = ShowError(RemoveLoading(@), MarkedMissingMessage)]
                   /\ UNCHANGED <<resultsDiv, previousResponses>>
           /\ IF selNode = CardNode(id, "loading")
              THEN CollapseSelection
              ELSE UNCHANGED <<selRaw, selNode, floatingButton, currentSelection>>
    /\ UNCHANGED <<maxSteps, markedLoaded, currentSubject, clones,
                   modal, detailsInFlight>>

\* generateStep of submission s throws: the inner catch and the break
GenerateFails(s, kind) ==
    /\ s \in 1..Len(subs)
    /\ subs[s].pc = "await"
    /\ subs' = [subs EXCEPT ![s].pc = "failed",
                             ![s].error = GenerateErrorMessage(kind)]
    /\ cards' = [cards EXCEPT
                   ![<<s, subs[s].step + 1>>] = ShowError(@, GenerateErrorMessage(kind))]
    /\ UNCHANGED <<maxSteps, markedLoaded, resultsDiv, previousResponses, currentSubject,
                   selRaw, selNode, currentSelection, floatingButton, clones,
                   modal, detailsInFlight>>

\* the marked.js script injected at the end of app.js has loaded and run
MarkedLoads ==
    /\ ~markedLoaded
    /\ markedLoaded' = TRUE
    /\ UNCHANGED <<maxSteps, subs, cards, resultsDiv, previousResponses, currentSubject,
                   selRaw, selNode, currentSelection, floatingButton, clones,
                   modal, detailsInFlight>>

Submit == FormSubmit
Resolve == \E s \in 1..MaxSubmits : GenerateResolves(s)
Fail == \E s \in 1..MaxSubmits, kind \in FailureKinds : GenerateFails(s, kind)

NextGen == Submit \/ Resolve \/ Fail \/ MarkedLoads

\* the study-guide half of the page alone
GenSpec == Init /\ [][NextGen]_vars

\* every fetch of /generate settles in the end
FairGenSpec ==
    GenSpec /\ \A s \in 1..MaxSubmits :
                 WF_vars(GenerateResolves(s) \/ \E kind \in FailureKinds : GenerateFails(s, kind))

(* ---------------------------- floating button -------------------------- *)

\* button.replaceWith(button.cloneNode(true)): the clone takes the button's
\* place in document.body with the button's inline style, and nothing
\* refers to it afterwards
LeaveClone(cl) == TRUE

\* button.addEventListener('click', ..., { once: true })
AddClickHandler(button) == [button EXCEPT !.handlers = @ + 1]

\* SelectionHandler.updateFloatingButtonPosition on the selection node
\* `node`: the new floatingButton and clones.  (getBoundingClientRect of a
\* range over non-blank visible text is never empty.)
UpdateFloatingButtonPosition(button, cl, current, node) ==
    IF current = <<>>
    THEN [button |-> button, clones |-> cl]
    ELSE IF node.kind = "none"
    THEN [button |-> button, clones |-> cl]
    ELSE IF FindStepCard(node) = NoCard
    THEN [button |-> RemoveFloatingButton(button), clones |-> cl]
    ELSE LET b == CreateFloatingButton(button) IN
         [button |-> AddClickHandler([b EXCEPT !.display = TRUE]),
          clones |-> LeaveClone(cl)]

\* the two mousedown listeners of document, in registration order
MouseDownHandlers(button, onButton) ==
    LET first  == IF button.exists /\ onButton THEN button
                  ELSE RemoveFloatingButton(button)
        second == IF first.exists /\ ~onButton THEN RemoveFloatingButton(first)
                  ELSE first
    IN  second

\* the selection changes (the user selects, extends or clears it) and the
\* selectionchange listener runs.  An empty selection has no node the
\* handlers look at, so it is recorded with NoNode.
SelectionChange(raw, node) ==
    /\ \/ raw = <<>> /\ node = NoNode
       \/ raw # <<>> /\ node \in SelectableNodes(resultsDiv, cards)
    /\ <<raw, node>> # <<selRaw, selNode>>
    /\ selRaw' = raw
    /\ selNode' = node
    /\ LET h == HandleSelectionChange(raw, node, floatingButton, currentSelection)
       IN  /\ floatingButton' = h.button
           /\ currentSelection' = h.current
    /\ UNCHANGED <<maxSteps, markedLoaded, subs, cards, resultsDiv, previousResponses,
                   currentSubject, clones, modal, detailsInFlight>>

\* mousedown on the floating button ("button") or anywhere else
MouseDown(target) ==
    /\ target = "button" => floatingButton.exists /\ floatingButton.display
    /\ floatingButton' = MouseDownHandlers(floatingButton, target = "button")
    /\ UNCHANGED <<maxSteps, markedLoaded, subs, cards, resultsDiv, previousResponses,
                   currentSubject, selRaw, selNode, currentSelection, clones,
                   modal, detailsInFlight>>

\* mouseup on the floating button or anywhere else: the mouseup listener
MouseUp(target) ==
    /\ target = "button" => floatingButton.exists /\ floatingButton.display
    /\ IF floatingButton.exists /\ target = "button"
       THEN UNCHANGED <<floatingButton, clones>>
       ELSE IF Trim(selRaw) # <<>>
       THEN LET u == UpdateFloatingButtonPosition(floatingButton, clones,
                                                  currentSelection, selNode)
            IN  /\ u.button.handlers <= MaxHandlers
                /\ floatingButton' = u.button
                /\ clones' = u.clones
       ELSE UNCHANGED <<floatingButton, clones>>
    /\ UNCHANGED <<maxSteps, markedLoaded, subs, cards, resultsDiv, previousResponses,
                   currentSubject, selRaw, selNode, currentSelection,
                   modal, detailsInFlight>>

(* ---------------------------- explanation modal ------------------------ *)

LoadingPlaceholder == [kind |-> "loading", src |-> NoRequest, msg |-> ""]

\* UIState.setModalLoading
SetModalLoading(m, loading) == [m EXCEPT !.loading = loading]

\* handleExplanationRequest without its isModalLoading test
HandleExplanationRequestAlways(x, subject, current) ==
    IF subject = NoSubject \/ current = <<>>
    THEN x
    ELSE [modal    |-> [x.modal EXCEPT !.loading = TRUE, !.title = current,
                                       !.content = LoadingPlaceholder,
                                       !.hidden = FALSE],
          inflight |-> Append(x.inflight, [component |-> current, subject |-> subject])]

\* handleExplanationRequest without its assignment to the modal's title
HandleExplanationRequestUntitled(x, subject, current) ==
    IF subject = NoSubject \/ current = <<>>
    THEN x
    ELSE IF x.modal.loading
    THEN x
    ELSE [modal    |-> [x.modal EXCEPT !.loading = TRUE,
                                       !.content = LoadingPlaceholder,
                                       !.hidden = FALSE],
          inflight |-> Append(x.inflight, [component |-> current, subject |-> subject])]

\* handleExplanationRequest without its test of subject and selection
HandleExplanationRequestUnchecked(x, subject, current) ==
    IF x.modal.loading
    THEN x
    ELSE [modal    |-> [x.modal EXCEPT !.loading = TRUE, !.title = current,
                                       !.content = LoadingPlaceholder,
                                       !.hidden = FALSE],
          inflight |-> Append(x.inflight, [component |-> current, subject |-> subject])]

\* SelectionHandler.handleExplanationRequest up to its await of fetch, on
\* x = [modal, inflight]
HandleExplanationRequest(x, subject, current) ==
    IF subject = NoSubject \/ current = <<>>
    THEN x
    ELSE IF x.modal.loading
    THEN x
    ELSE [modal    |-> [SetModalLoading(x.modal, TRUE) EXCEPT
                          !.title = current,
                          !.content = LoadingPlaceholder,
                          !.hidden = FALSE],
          inflight |-> Append(x.inflight, [component |-> current, subject |-> subject])]

\* the click listeners of the button run one after the other, each up to
\* its first await
RECURSIVE RunClickHandlers(_, _, _, _)
RunClickHandlers(n, x, subject, current) ==
    IF n = 0 THEN x
    ELSE RunClickHandlers(n - 1, HandleExplanationRequest(x, subject, current),
                          subject, current)

\* a finally block that leaves the loading flag set
FinishExplanationNever(m) == m

\* the finally block of handleExplanationRequest
FinishExplanation(m) == SetModalLoading(m, FALSE)

\* click event on the floating button (by mouse or keyboard): its
\* { once: true } listeners run and are dropped
ClickFloatingButton ==
    /\ floatingButton.exists /\ floatingButton.display
    /\ LET x == RunClickHandlers(floatingButton.handlers,
                                 [modal |-> modal, inflight |-> detailsInFlight],
                                 currentSubject, currentSelection)
       IN  /\ modal' = x.modal
           /\ detailsInFlight' = x.inflight
    /\ floatingButton' = [floatingButton EXCEPT !.handlers = 0]
    /\ UNCHANGED <<maxSteps, markedLoaded, subs, cards, resultsDiv, previousResponses,
                   currentSubject, selRaw, selNode, currentSelection, clones>>

RemoveAt(q, i) == SubSeq(q, 1, i - 1) \o SubSeq(q, i + 1, Len(q))

\* a catch block that leaves the modal's content as it is
ShowModalErrorNever(m, req, message) == m

\* the catch block of handleExplanationRequest: the error's message
\* replaces the modal's content
ShowModalError(m, req, message) ==
    [m EXCEPT !.content = [kind |-> "error", src |-> req, msg |-> message]]

\* the fetch of /get_component_details answers OK with a JSON body: the
\* rest of the try block, then finally
DetailsResolves(i) ==
    /\ i \in 1..Len(detailsInFlight)
    /\ LET req == detailsInFlight[i]
       IN  modal' = FinishExplanation(
                      IF markedLoaded
                      THEN [modal EXCEPT !.content = [kind |-> "html", src |-> req,
                                                      msg |-> ""]]
                      ELSE ShowModalError(modal, req, MarkedMissingMessage))
    /\ detailsInFlight' = RemoveAt(detailsInFlight, i)
    /\ floatingButton' = RemoveFloatingButton(floatingButton)
    /\ UNCHANGED <<maxSteps, markedLoaded, subs, cards, resultsDiv, previousResponses,
                   currentSubject, selRaw, selNode, currentSelection, clones>>

\* the fetch rejects, its body is no JSON, or its status is not OK: the
\* catch block, then finally
DetailsFails(i, kind) ==
    /\ i \in 1..Len(detailsInFlight)
    /\ LET req == detailsInFlight[i]
       IN  modal' = FinishExplanation(
                      ShowModalError(modal, req, DetailsErrorMessage(kind)))
    /\ detailsInFlight' = RemoveAt(detailsInFlight, i)
    /\ floatingButton' = RemoveFloatingButton(floatingButton)
    /\ UNCHANGED <<maxSteps, markedLoaded, subs, cards, resultsDiv, previousResponses,
                   currentSubject, selRaw, selNode, currentSelection, clones>>

\* click on #closeModal or on the modal's backdrop
CloseModal ==
    /\ ~modal.hidden
    /\ modal' = [modal EXCEPT !.hidden = TRUE]
    /\ UNCHANGED <<maxSteps, markedLoaded, subs, cards, resultsDiv, previousResponses,
                   currentSubject, selRaw, selNode, currentSelection, floatingButton,
                   clones, detailsInFlight>>

Select == \E raw \in RawTexts :
            \E node \in {NoNode} \cup SelectableNodes(resultsDiv, cards) :
              SelectionChange(raw, node)
Press == \E target \in {"button", "elsewhere"} : MouseDown(target)
Release == \E target \in {"button", "elsewhere"} : MouseUp(target)
DetailsResolve == \E i \in 1..Len(detailsInFlight) : DetailsResolves(i)
DetailsFail == \E i \in 1..Len(detailsInFlight), kind \in FailureKinds : DetailsFails(i, kind)

Next ==
    \/ Submit
    \/ Resolve
    \/ Fail
    \/ MarkedLoads
    \/ Select
    \/ Press
    \/ Release
    \/ ClickFloatingButton
    \/ DetailsResolve
    \/ DetailsFail
    \/ CloseModal

Spec == Init /\ [][Next]_vars

\* the page as shipped: the template has no #maxSteps field
InitShipped == Init /\ maxSteps = MaxStepsOf(<<>>)

\* the whole page, on the shipped template
PageSpec == InitShipped /\ [][Next]_vars

\* every fetch of /get_component_details settles in the end
FairPageSpec == PageSpec /\ WF_vars(DetailsResolve \/ DetailsFail)

\* a direct call of SelectionHandler.handleExplanationRequest, up to its
\* first await: the method reads the handler's and the UI's state only
CallExplanationRequest ==
    /\ LET x == HandleExplanationRequest([modal |-> modal, inflight |-> detailsInFlight],
                                         currentSubject, currentSelection)
       IN  /\ modal' = x.modal
           /\ detailsInFlight' = x.inflight
    /\ UNCHANGED <<maxSteps, markedLoaded, subs, cards, resultsDiv, previousResponses,
                   currentSubject, selRaw, selNode, currentSelection, floatingButton,
                   clones>>

NextCall ==
    \/ Submit
    \/ Resolve
    \/ Fail
    \/ MarkedLoads
    \/ Select
    \/ CallExplanationRequest
    \/ DetailsResolve
    \/ DetailsFail
    \/ CloseModal

\* handleExplanationRequest called in every state that the form, the
\* selection and the responses produce on the shipped template
CallSpec == InitShipped /\ [][NextCall]_vars

(* ---------------------------- study guide: properties ------------------ *)

Running(s) == s \in 1..Len(subs) /\ subs[s].pc = "await"

\* the number of /generate requests submission s has issued before a step
IssuedBefore(s) == IF s \in 1..Len(subs) THEN subs[s].issued ELSE 0

\* C1: within one submission the /generate requests carry the step indices
\* 0, 1, 2, ... in this order, and the request for step k+1 is issued in
\* the step that received the response for step k, rendered it into card
\* k+1 of the submission (the card of step k) and pushed it on
\* previousResponses.
StepOrder ==
    [][\A s \in 1..Len(subs') :
         subs'[s].issued # IssuedBefore(s) =>
           LET n == IssuedBefore(s) IN
           /\ subs'[s].issued = n + 1
           /\ subs'[s].pc = "await"
           /\ subs'[s].step = n
           /\ n > 0 =>
                /\ Running(s)
                /\ subs[s].step = n - 1
                /\ subs'[s].got = Append(subs[s].got, ResponseText(s, n - 1))
                /\ ~cards'[<<s, n>>].bar
                /\ cards'[<<s, n>>].content = MarkedParse(ResponseText(s, n - 1))
                /\ previousResponses' # <<>>
                /\ previousResponses'[Len(previousResponses')] = ResponseText(s, n - 1)
      ]_vars

\* a submission waits for the response to its second request
SecondStepIssued ==
    \E s \in 1..Len(subs) : Running(s) /\ subs[s].step = 1 /\ subs[s].issued = 2

\* C2: every /generate request in flight for step k carries a
\* previousResponses of length k whose i-th element is the response to
\* step i of the same submission.
HistoryMatchesSteps ==
    \A s \in 1..Len(subs) :
      Running(s) =>
        /\ Len(subs[s].sent) = subs[s].step
        /\ \A i \in 1..Len(subs[s].sent) : subs[s].sent[i] = ResponseText(s, i - 1)

\* C3: once the request for step k of a submission has failed, card k+1
\* of the submission shows the error's message, the submission has issued
\* the k+1 requests for steps 0..k and no more, and it has created no
\* card after that one.
ErrorStopsSubmission ==
    \A s \in 1..Len(subs) :
      subs[s].pc = "failed" =>
        LET k == subs[s].step IN
        /\ cards[<<s, k + 1>>].content.kind = "error"
        /\ cards[<<s, k + 1>>].content.msg = subs[s].error
        /\ subs[s].error # ""
        /\ subs[s].issued = k + 1
        /\ \A id \in DOMAIN cards : id[1] = s => id[2] <= k + 1
        /\ \A i \in 1..Len(resultsDiv) : resultsDiv[i][1] = s => resultsDiv[i][2] <= k + 1

\* a request for a step after the first has failed while the loop had
\* steps left
LaterStepFailed ==
    \E s \in 1..Len(subs), kind \in FailureKinds :
      /\ subs[s].pc = "failed"
      /\ subs[s].error = GenerateErrorMessage(kind)
      /\ subs[s].step + 1 < maxSteps

\* C4: at most one /generate request is in flight.
OneGenerateInFlight ==
    Cardinality({s \in 1..Len(subs) : Running(s)}) <= 1

\* C5: a submission whose loop ran to its end without an error has issued
\* six requests and left six rendered cards numbered 1 to 6.
SixStepPlan ==
    \A s \in 1..Len(subs) :
      subs[s].pc = "done" =>
        /\ subs[s].issued = 6
        /\ \A n \in 1..6 :
             /\ <<s, n>> \in DOMAIN cards
             /\ cards[<<s, n>>].step = n
             /\ cards[<<s, n>>].content.kind = "html"

\* C6: the step that starts a submission leaves #results with nothing but
\* that submission's cards and previousResponses empty, and the step-0
\* request it issues carries an empty previousResponses.
FreshHistoryPerSubmission ==
    [][Len(subs') # Len(subs) =>
         LET s == Len(subs') IN
         /\ s = Len(subs) + 1
         /\ previousResponses' = <<>>
         /\ \A i \in 1..Len(resultsDiv') : resultsDiv'[i][1] = s
         /\ subs'[s].issued > 0 =>
              /\ subs'[s].step = 0
              /\ subs'[s].sent = <<>>
      ]_vars

\* a second submission has sent its step-0 request after the first one
\* received a response
SubmitAfterResponses ==
    /\ Len(subs) >= 2
    /\ subs[1].got # <<>>
    /\ Running(2)
    /\ subs[2].step = 0
    /\ subs[2].issued = 1

(* ---------------------------- explanations: properties ----------------- *)

Displayed == floatingButton.exists /\ floatingButton.display

ClickRequestsExplanation ==
    [][(ClickFloatingButton /\ ~modal.loading) =>
         /\ Len(detailsInFlight') = Len(detailsInFlight) + 1
         /\ detailsInFlight'[Len(detailsInFlight')] =
              [component |-> Trim(selRaw), subject |-> subs[Len(subs)].subject]
         /\ currentSelection = Trim(selRaw)
         /\ modal'.title = Trim(selRaw)
         /\ ~modal'.hidden
         /\ modal'.loading
      ]_vars

\* a request for the second submission's subject is in flight and the
\* modal is open
SecondSubjectRequested ==
    /\ Len(detailsInFlight) = 1
    /\ detailsInFlight[1].subject = SubjectOf(2)
    /\ ~modal.hidden

\* C9: at most one /get_component_details request is in flight, the
\* loading flag is set exactly while one is, and a click while it is set
\* sends nothing and leaves the modal as it is.
OneExplanationAtATime ==
    /\ [](Len(detailsInFlight) <= 1 /\ (modal.loading <=> Len(detailsInFlight) = 1))
    /\ [][(ClickFloatingButton /\ modal.loading) =>
            UNCHANGED <<modal, detailsInFlight>>]_vars

\* a click handler is armed while an explanation is loading
ClickWhileLoading ==
    modal.loading /\ Displayed /\ floatingButton.handlers > 0

\* C10: an explanation that is loading leads to a state with the loading
\* flag cleared and the floating button removed.
ExplanationEnds ==
    modal.loading ~> (~modal.loading /\ ~floatingButton.exists)

\* an explanation has ended, in a rendering or in an error
ExplanationEnded ==
    /\ ~modal.loading
    /\ modal.content.kind \in {"html", "error"}
    /\ ~floatingButton.exists

\* C11: when a /get_component_details request fails, the modal's content
\* shows the error of that request, the modal's title is still the text
\* the request was made for, and the cards, #results and
\* previousResponses are as they were.
FailedExplanationShown ==
    [][\A i \in 1..Len(detailsInFlight), kind \in FailureKinds :
         DetailsFails(i, kind) =>
           /\ modal'.content = [kind |-> "error", src |-> detailsInFlight[i],
                                msg |-> DetailsErrorMessage(kind)]
           /\ modal'.title = detailsInFlight[i].component
           /\ UNCHANGED <<cards, resultsDiv, previousResponses>>
      ]_vars

\* the modal shows the error of a failed request under the requested
\* text, next to a study guide with a rendered step
ExplanationFailed ==
    /\ modal.content.kind = "error"
    /\ modal.content.msg \in {DetailsErrorMessage(kind) : kind \in FailureKinds}
    /\ modal.title = modal.content.src.component
    /\ resultsDiv # <<>>
    /\ previousResponses # <<>>

\* C12: with no current subject or no current selection,
\* handleExplanationRequest sends no request and leaves the modal (title,
\* content, visibility) and isModalLoading as they are.
NoRequestWithoutSubjectOrSelection ==
    (currentSubject = NoSubject \/ currentSelection = <<>>) =>
      LET x == [modal |-> modal, inflight |-> detailsInFlight]
      IN  HandleExplanationRequest(x, currentSubject, currentSelection) = x

\* a study guide is there and text is selected, but no selection in a
\* card has been recorded
SubjectWithoutSelection ==
    /\ currentSubject # NoSubject
    /\ currentSelection = <<>>
    /\ resultsDiv # <<>>
    /\ Trim(selRaw) # <<>>
    /\ ENABLED CallExplanationRequest

\* C13: whenever the modal's content is an explanation or an error, and
\* not the loading placeholder, it is the outcome of the request that was
\* made for exactly the text in the modal's title.
ContentMatchesTitle ==
    modal.content.kind \in {"html", "error"} =>
      /\ modal.content.src # NoRequest
      /\ modal.content.src.component = modal.title

\* an explanation of the second submission's text is shown after the
\* selection has moved on to another text
ExplanationUnderItsTitle ==
    /\ modal.content.kind = "html"
    /\ modal.content.src.subject = SubjectOf(2)
    /\ modal.title # currentSelection
    /\ ~modal.loading

\* C14: #results holds the cards numbered 1..n in document order, n being
\* the number of /generate requests the latest submission has issued;
\* every card but possibly the last shows a rendered response.
CardsNumbered ==
    LET n == IF subs = <<>> THEN 0 ELSE subs[Len(subs)].issued
    IN  /\ Len(resultsDiv) = n
        /\ \A i \in 1..Len(resultsDiv) :
             /\ cards[resultsDiv[i]].step = i
             /\ i < Len(resultsDiv) =>
                  /\ ~cards[resultsDiv[i]].bar
                  /\ cards[resultsDiv[i]].content.kind = "html"

\* C15: every submission ends, after at most maxSteps requests: either
\* with all maxSteps steps rendered or at its first failed step, whose
\* card shows the error.
SubmissionTerminates ==
    /\ [](\A s \in 1..Len(subs) :
            /\ subs[s].issued <= maxSteps
            /\ subs[s].pc = "done" =>
                 /\ subs[s].issued = maxSteps
                 /\ \A k \in 1..maxSteps : cards[<<s, k>>].content.kind = "html"
            /\ subs[s].pc = "failed" =>
                 /\ subs[s].issued = subs[s].step + 1
                 /\ cards[<<s, subs[s].issued>>].content.kind = "error"
                 /\ \A k \in 1..(subs[s].issued - 1) :
                      cards[<<s, k>>].content.kind = "html")
    /\ \A s \in 1..MaxSubmits :
         Running(s) ~> (s \in 1..Len(subs) /\ subs[s].pc \in {"done", "failed"})

\* one submission has rendered all of its steps and another has stopped
\* at a failed step
SubmissionsEnded ==
    /\ \E s \in 1..Len(subs) :
         subs[s].pc = "done" /\ subs[s].issued = maxSteps /\ maxSteps > 1
    /\ \E s \in 1..Len(subs) : subs[s].pc = "failed"

\* C16: once a submission has started, #results holds only cards that the
\* latest submission created and previousResponses only responses to the
\* latest submission's requests, whatever completes afterwards.
OnlyLatestSubmission ==
    /\ \A i \in 1..Len(resultsDiv) : resultsDiv[i][1] = Len(subs)
    /\ \A i \in 1..Len(previousResponses) : previousResponses[i].s = Len(subs)

\* C17: at most one element of class 'floating-button' is attached to the
\* document.
OneFloatingButtonElement ==
    ~(floatingButton.exists /\ clones)

\* C18: the button held in state.floatingButton carries at most one
\* pending click listener.
OnePendingClickHandler ==
    floatingButton.handlers <= 1

\* C19: marked has loaded before any response is rendered: no card and
\* no modal shows the error of a call to an undefined marked.
RenderedAsMarkdown ==
    /\ \A id \in DOMAIN cards : cards[id].content.msg # MarkedMissingMessage
    /\ modal.content.msg # MarkedMissingMessage

====
